---- MODULE Spec2Model ----
(***************************************************************************)
(* babycli: declarative command-line parser.  The model follows one run:   *)
(* New(config) builds the token stack, Runnable.Run enters the root        *)
(* Component, Component.run consumes flags, then shows help, invokes the   *)
(* leaf handler or descends into a child.  Strings are TLA+ strings;       *)
(* time.Duration is counted in milliseconds.                               *)
(***************************************************************************)
EXTENDS Integers, Sequences, FiniteSets, TLC

VARIABLES cfg, args, vals, cur, version, globals, pc, output, code,
          panicMsg, invoked, call, got, popped, rerun, later, flat

vars == <<cfg, args, vals, cur, version, globals, pc, output, code,
          panicMsg, invoked, call, got, popped, rerun, later, flat>>

(* ---------------------------------------------------------------------- *)
(* Bounds of the model                                                     *)
(* ---------------------------------------------------------------------- *)

\* number of argument items given to a single-command program
MaxItems == 2

\* number of argument items given to the nested program
MaxPathItems == 4

(* ---------------------------------------------------------------------- *)
(* strings, strconv, time                                                  *)
(* ---------------------------------------------------------------------- *)

HasPrefix(s, p) == Len(s) >= Len(p) /\ SubSeq(s, 1, Len(p)) = p

\* strings.TrimPrefix(s, "-"): one dash at most is stripped
TrimOneDash(s) == IF Len(s) > 0 /\ Head(s) = "-" THEN Tail(s) ELSE s

RECURSIVE TrimLeftDash(_)
TrimLeftDash(s) ==
    IF Len(s) > 0 /\ Head(s) = "-" THEN TrimLeftDash(Tail(s)) ELSE s

Quote(s) == "\"" \o s \o "\""

Digits == {"0", "1", "2", "3", "4", "5", "6", "7", "8", "9"}

DigitVal(ch) ==
    CASE ch = "0" -> 0 [] ch = "1" -> 1 [] ch = "2" -> 2 [] ch = "3" -> 3
      [] ch = "4" -> 4 [] ch = "5" -> 5 [] ch = "6" -> 6 [] ch = "7" -> 7
      [] ch = "8" -> 8 [] ch = "9" -> 9

\* length of the longest prefix of s made of digits
RECURSIVE LeadingDigits(_)
LeadingDigits(s) ==
    IF Len(s) > 0 /\ Head(s) \in Digits THEN 1 + LeadingDigits(Tail(s)) ELSE 0

\* length of the longest prefix of s made of neither digits nor "."
RECURSIVE LeadingUnit(_)
LeadingUnit(s) ==
    IF Len(s) > 0 /\ Head(s) \notin Digits /\ Head(s) # "."
    THEN 1 + LeadingUnit(Tail(s)) ELSE 0

\* value of a string of digits, most significant first
RECURSIVE DigitsVal(_, _)
DigitsVal(s, acc) ==
    IF Len(s) = 0 THEN acc ELSE DigitsVal(Tail(s), acc * 10 + DigitVal(Head(s)))

\* strconv.Atoi: optional sign, then one or more decimal digits
Atoi(s) ==
    LET signed == Len(s) > 0 /\ Head(s) \in {"+", "-"}
        body   == IF signed THEN Tail(s) ELSE s
        n      == DigitsVal(body, 0)
    IN  IF Len(body) = 0 \/ LeadingDigits(body) # Len(body)
        THEN [ok |-> FALSE, val |-> 0]
        ELSE [ok |-> TRUE,
              val |-> IF signed /\ Head(s) = "-" THEN 0 - n ELSE n]

\* milliseconds per unit; units below a millisecond are not representable
UnitMillis(u) ==
    CASE u = "ms" -> 1 [] u = "s" -> 1000 [] u = "m" -> 60000
      [] u = "h" -> 3600000 [] OTHER -> 0

\* the sequence of (number, unit) groups of a duration literal
RECURSIVE DurationGroups(_, _)
DurationGroups(s, acc) ==
    IF Len(s) = 0 THEN [ok |-> TRUE, val |-> acc]
    ELSE LET nd   == LeadingDigits(s)
             rest == SubSeq(s, nd + 1, Len(s))
             nu   == LeadingUnit(rest)
             unit == SubSeq(rest, 1, nu)
         IN  IF nd = 0 \/ nu = 0 \/ UnitMillis(unit) = 0
             THEN [ok |-> FALSE, val |-> 0]
             ELSE DurationGroups(SubSeq(rest, nu + 1, Len(rest)),
                      acc + DigitsVal(SubSeq(s, 1, nd), 0) * UnitMillis(unit))

\* time.ParseDuration for literals without a fraction
ParseDuration(s) ==
    LET signed == Len(s) > 0 /\ Head(s) \in {"+", "-"}
        body   == IF signed THEN Tail(s) ELSE s
        r      == DurationGroups(body, 0)
    IN  IF body = "0" THEN [ok |-> TRUE, val |-> 0]
        ELSE IF Len(body) = 0 \/ ~r.ok THEN [ok |-> FALSE, val |-> 0]
        ELSE [ok |-> TRUE,
              val |-> IF signed /\ Head(s) = "-" THEN 0 - r.val ELSE r.val]

RECURSIVE Reverse(_)
Reverse(s) == IF Len(s) = 0 THEN <<>> ELSE Append(Reverse(Tail(s)), Head(s))

(* ---------------------------------------------------------------------- *)
(* utils.go                                                                *)
(* ---------------------------------------------------------------------- *)

\* the value no panic / no result carries
None == "<none>"

\* panicf(msg, args...): the panic value; s is the formatted message
panicf(s) == "babycli: " \o s

\* writef(output, s): one write of s and a newline
\* writef that writes nothing
writefNothing(out, s) == out

writef(out, s) == Append(out, s \o "\n")

(* ---------------------------------------------------------------------- *)
(* Result codes                                                            *)
(* ---------------------------------------------------------------------- *)

Success == 0

Failure == 1

Usability == 2

(* ---------------------------------------------------------------------- *)
(* Flag, Flags                                                             *)
(* ---------------------------------------------------------------------- *)

StringFlag == "string"

IntFlag == "int"

BooleanFlag == "boolean"

DurationFlag == "duration"

FlagTypes == {StringFlag, IntFlag, BooleanFlag, DurationFlag}

\* Flag.Default = nil
NoDefault == [set |-> FALSE]

\* Flag.Default = &Default{Value: v}
Default(v) == [set |-> TRUE, Value |-> v]

Flag(type, require, repeats, long, short, default) ==
    [Type |-> type, Require |-> require, Repeats |-> repeats,
     Long |-> long, Short |-> short, Default |-> default, Help |-> ""]

helpFlag ==
    [Flag(BooleanFlag, FALSE, FALSE, "help", "h", NoDefault)
        EXCEPT !.Help = "print help message"]

\* Identity preferring the short name
IdentityShort(f) == IF f.Short = "" THEN f.Long ELSE f.Short

Identity(f) == IF f.Long = "" THEN f.Short ELSE f.Long

Is(f, name) == IF Len(name) = 1 THEN f.Short = name ELSE f.Long = name

FlagsContains(fs, name) == \E i \in 1..Len(fs) : Is(fs[i], name)

\* index of the first flag of fs that name denotes (Flags.Get's loop)
FlagsIndex(fs, name) ==
    CHOOSE i \in 1..Len(fs) :
        /\ Is(fs[i], name)
        /\ \A j \in 1..(i - 1) : ~Is(fs[j], name)

\* Flags.Get: the flag, or the panic it raises
FlagsGet(fs, name) ==
    IF FlagsContains(fs, name)
    THEN [panic |-> None, flag |-> fs[FlagsIndex(fs, name)]]
    ELSE [panic |-> panicf("flag " \o Quote(name) \o " is not defined"),
          flag |-> helpFlag]

(* ---------------------------------------------------------------------- *)
(* values                                                                  *)
(* ---------------------------------------------------------------------- *)

\* a Go map read: the slice stored under k, nil when k is absent
Lookup(m, k) == IF k \in DOMAIN m THEN m[k] ELSE <<>>

\* m[k] = []T{v}: the value replaces what was recorded
MapSet(m, k, v) ==
    [x \in (DOMAIN m) \cup {k} |-> IF x = k THEN <<v>> ELSE m[x]]

\* m[k] = append(m[k], v)
MapAppend(m, k, v) ==
    [x \in (DOMAIN m) \cup {k} |-> IF x = k THEN Append(Lookup(m, k), v) ELSE m[x]]

\* Component.vals = nil
NilValues == [nil |-> TRUE]

\* Component.init: the four empty maps
NewValues == [strings |-> <<>>, ints |-> <<>>, bools |-> <<>>, durations |-> <<>>]

stringCount(v, flag) == Len(Lookup(v.strings, flag))

intCount(v, flag) == Len(Lookup(v.ints, flag))

boolCount(v, flag) == Len(Lookup(v.bools, flag))

durationCount(v, flag) == Len(Lookup(v.durations, flag))

\* helpSet without the test of the recorded values: any value counts
helpSetAnyValue(v) ==
    \E k \in (DOMAIN v.bools) \cap {"help", "h"} : Len(v.bools[k]) > 0

\* helpSet that never finds help set
helpSetNever(v) == FALSE

helpSet(v) ==
    \E k \in (DOMAIN v.bools) \cap {"help", "h"} :
        \E i \in 1..Len(v.bools[k]) : v.bools[k][i]

(* ---------------------------------------------------------------------- *)
(* Component, Configuration: the programs of the model                     *)
(* ---------------------------------------------------------------------- *)

Component(name, components, function, flags) ==
    [Name |-> name, Components |-> components, Function |-> function,
     Flags |-> flags]

\* per value kind: names of the flag under study and tokens given as values
LongOf(k) ==
    CASE k = StringFlag -> "name" [] k = IntFlag -> "age"
      [] k = BooleanFlag -> "verbose" [] k = DurationFlag -> "ttl"

ShortOf(k) ==
    CASE k = StringFlag -> "n" [] k = IntFlag -> "a"
      [] k = BooleanFlag -> "v" [] k = DurationFlag -> "t"

ValueTokens(k) ==
    CASE k = StringFlag -> <<"bob", "carl">> [] k = IntFlag -> <<"20", "30">>
      [] k = BooleanFlag -> <<"true", "false">>
      [] k = DurationFlag -> <<"2m", "1m30s">>

\* a token that is no value of the kind
OddToken(k) ==
    CASE k = StringFlag -> "" [] k = IntFlag -> "2x"
      [] k = BooleanFlag -> "yes" [] k = DurationFlag -> "90"

\* a default of the kind, different from every value given on the command line
DefaultOf(k) ==
    CASE k = StringFlag -> Default("dflt") [] k = IntFlag -> Default(7)
      [] k = BooleanFlag -> Default(TRUE) [] k = DurationFlag -> Default(5000)

\* a program of one leaf command declaring one flag
FlatConfig(k, require, repeats, hasDefault, arguments) ==
    [Arguments |-> arguments,
     shape   |-> "flat",
     kind    |-> k,
     nodes   |-> << Component("app", <<>>, TRUE,
                      << Flag(k, require, repeats, LongOf(k), ShortOf(k),
                              IF hasDefault THEN DefaultOf(k) ELSE NoDefault) >>) >>,
     Globals |-> <<>>,
     Version |-> "v1"]

\* app -> {first -> {second}, other}; second and other are leaves
NestedConfig(arguments) ==
    [Arguments |-> arguments,
     shape   |-> "nested",
     kind    |-> StringFlag,
     nodes   |-> << Component("app", <<2, 4>>, FALSE,
                      << Flag(BooleanFlag, FALSE, FALSE, "verbose", "v", NoDefault) >>),
                    Component("first", <<3>>, FALSE,
                      << Flag(IntFlag, FALSE, FALSE, "age", "a", NoDefault) >>),
                    Component("second", <<>>, TRUE,
                      << Flag(StringFlag, TRUE, FALSE, "name", "n", NoDefault) >>),
                    Component("other", <<>>, TRUE, <<>>) >>,
     Globals |-> <<>>,
     Version |-> "v1"]

\* a program whose declarations may break the rules on names: app declares
\* one string flag and, when hasChild, two child commands, the second called
\* sub and without a handler
DeclConfig(long, short, childName, hasChild, arguments) ==
    [Arguments |-> arguments,
     shape   |-> "decl",
     kind    |-> StringFlag,
     nodes   |-> << Component("app", IF hasChild THEN <<2, 3>> ELSE <<>>, TRUE,
                      << Flag(StringFlag, FALSE, FALSE, long, short, NoDefault) >>),
                    Component(childName, <<>>, TRUE, <<>>),
                    Component("sub", <<>>, FALSE, <<>>) >>,
     Globals |-> <<>>,
     Version |-> "v1"]

\* app declares one flag of kind k; its only child, the leaf run, declares
\* a boolean flag that has a short name only
ChainConfig(k, arguments) ==
    [Arguments |-> arguments,
     shape   |-> "chain",
     kind    |-> k,
     nodes   |-> << Component("app", <<2>>, FALSE,
                      << Flag(k, FALSE, TRUE, LongOf(k), ShortOf(k), NoDefault) >>),
                    Component("run", <<>>, TRUE,
                      << Flag(BooleanFlag, FALSE, FALSE, "", "q", NoDefault) >>) >>,
     Globals |-> <<>>,
     Version |-> "v1"]

DeclLongs == {"long", "x"}

DeclShorts == {"s", "xyz"}

DeclNames == {"sub", "", "a"}

\* Configuration.Top
Top == 1

\* the pieces a command line of the one-flag program is made of
FlatItems(k) ==
    { <<"--" \o LongOf(k)>>, <<"-" \o ShortOf(k)>>,
      <<ValueTokens(k)[1]>>, <<ValueTokens(k)[2]>>, <<OddToken(k)>>,
      <<"-5">>, <<"--help">>,
      <<"--" \o LongOf(k), ValueTokens(k)[1]>>,
      <<"-" \o ShortOf(k), ValueTokens(k)[2]>>,
      <<"-" \o ShortOf(k), ValueTokens(k)[1], "--" \o LongOf(k), ValueTokens(k)[2]>>,
      <<"--" \o LongOf(k) \o "=" \o ValueTokens(k)[1]>>,
      <<"-" \o ShortOf(k) \o "=" \o ValueTokens(k)[2]>> }

\* the pieces a command line of the nested program is made of
NestedItems ==
    { <<"first">>, <<"second">>, <<"other">>, <<"nope">>,
      <<"--verbose">>, <<"--age", "20">>, <<"-n", "bob">>, <<"-h">>,
      <<"--help", "false">> }

\* the pieces a command line of the program with doubtful names is made of
DeclItems(childName) == { <<childName>>, <<"sub">>, <<"zed">>, <<"--help">> }

\* the pieces a command line of the program of ChainConfig is made of
ChainItems(k) ==
    { <<"--" \o LongOf(k), ValueTokens(k)[1]>>,
      <<"-" \o ShortOf(k), ValueTokens(k)[2]>>, <<"run">>, <<"-q">>, <<"--">> }

\* all concatenations of at most n items
RECURSIVE Lines(_, _)
Lines(items, n) ==
    IF n = 0 THEN { <<>> }
    ELSE LET shorter == Lines(items, n - 1)
         IN  shorter \cup { l \o i : l \in shorter, i \in items }

(* ---------------------------------------------------------------------- *)
(* Token stack (top of the stack is the last element)                      *)
(* ---------------------------------------------------------------------- *)

Empty(a) == Len(a) = 0

Peek(a) == a[Len(a)]

\* the stack left by Pop
Pop(a) == SubSeq(a, 1, Len(a) - 1)

\* New without slices.Reverse: the last argument is popped first
NewStackUnreversed(arguments) == arguments

\* New: the arguments are cloned, reversed and pushed in that order
NewStack(arguments) == Reverse(arguments)

(* ---------------------------------------------------------------------- *)
(* Flag consumption: each operator gives the stack and the store it leaves *)
(* and the panic it raises (None when it returns)                          *)
(* ---------------------------------------------------------------------- *)

Ret(a, v) == [args |-> a, vals |-> v, panic |-> None]

Panic(a, v, msg) == [args |-> a, vals |-> v, panic |-> msg]

\* consumeBoolFlag without the two Pop calls: true and false stay on the stack
consumeBoolFlagNoPop(a, v, identity) ==
    IF Empty(a)
    THEN Ret(a, [v EXCEPT !.bools = MapAppend(@, identity, TRUE)])
    ELSE CASE Peek(a) = "true" ->
                Ret(a, [v EXCEPT !.bools = MapAppend(@, identity, TRUE)])
           [] Peek(a) = "false" ->
                Ret(a, [v EXCEPT !.bools = MapAppend(@, identity, FALSE)])
           [] OTHER ->
                Ret(a, [v EXCEPT !.bools = MapAppend(@, identity, TRUE)])

consumeBoolFlag(a, v, identity) ==
    IF Empty(a)
    THEN Ret(a, [v EXCEPT !.bools = MapAppend(@, identity, TRUE)])
    ELSE CASE Peek(a) = "true" ->
                Ret(Pop(a), [v EXCEPT !.bools = MapAppend(@, identity, TRUE)])
           [] Peek(a) = "false" ->
                Ret(Pop(a), [v EXCEPT !.bools = MapAppend(@, identity, FALSE)])
           [] OTHER ->
                Ret(a, [v EXCEPT !.bools = MapAppend(@, identity, TRUE)])

consumeStringFlag(a, v, identity) ==
    IF Empty(a)
    THEN Panic(a, v, panicf("no value for string flag " \o Quote(identity)))
    ELSE IF HasPrefix(Peek(a), "-")
    THEN Panic(a, v, panicf("no value for string flag " \o Quote(identity)))
    ELSE Ret(Pop(a), [v EXCEPT !.strings = MapAppend(@, identity, Peek(a))])

\* consumeIntFlag without the test for a leading "-": a negative number is
\* taken as the value
consumeIntFlagNoDashTest(a, v, identity) ==
    IF Empty(a)
    THEN Panic(a, v, panicf("no value for int flag " \o Quote(identity)))
    ELSE LET value == Peek(a)
             i     == Atoi(value)
         IN  IF ~i.ok
             THEN Panic(Pop(a), v,
                        panicf("unable to convert value for flag " \o Quote(identity)
                               \o " to int " \o Quote(value)))
             ELSE Ret(Pop(a), [v EXCEPT !.ints = MapAppend(@, identity, i.val)])

consumeIntFlag(a, v, identity) ==
    IF Empty(a)
    THEN Panic(a, v, panicf("no value for int flag " \o Quote(identity)))
    ELSE IF HasPrefix(Peek(a), "-")
    THEN Panic(a, v, panicf("no value for int flag " \o Quote(identity)))
    ELSE LET value == Peek(a)
             i     == Atoi(value)
         IN  IF ~i.ok
             THEN Panic(Pop(a), v,
                        panicf("unable to convert value for flag " \o Quote(identity)
                               \o " to int " \o Quote(value)))
             ELSE Ret(Pop(a), [v EXCEPT !.ints = MapAppend(@, identity, i.val)])

consumeDurationFlag(a, v, identity) ==
    IF Empty(a)
    THEN Panic(a, v, panicf("no value for string flag " \o Quote(identity)))
    ELSE IF HasPrefix(Peek(a), "-")
    THEN Panic(a, v, panicf("no value for string flag " \o Quote(identity)))
    ELSE LET value == Peek(a)
             dur   == ParseDuration(value)
         IN  IF ~dur.ok
             THEN Panic(Pop(a), v,
                        panicf("unable to convert value for flag " \o Quote(identity)
                               \o " to duration " \o Quote(value)))
             ELSE Ret(Pop(a), [v EXCEPT !.durations = MapAppend(@, identity, dur.val)])

\* Component.consumeFlag of node c with the inherited globals g
consumeFlag(c, g, a, v) ==
    LET combine == c.Flags \o g
        name    == TrimLeftDash(Peek(a))
        found   == FlagsGet(combine, name)
        flag    == found.flag
    IN  IF found.panic # None THEN Panic(Pop(a), v, found.panic)
        ELSE CASE flag.Type = BooleanFlag ->
                    consumeBoolFlag(Pop(a), v, Identity(flag))
               [] flag.Type = StringFlag ->
                    consumeStringFlag(Pop(a), v, Identity(flag))
               [] flag.Type = IntFlag ->
                    consumeIntFlag(Pop(a), v, Identity(flag))
               [] flag.Type = DurationFlag ->
                    consumeDurationFlag(Pop(a), v, Identity(flag))

\* Component.processFlags: whether the next token is taken as a flag
processFlags(a) == HasPrefix(Peek(a), "--") \/ HasPrefix(Peek(a), "-")

\* the loop of Component.run going on for every token that is left
MoreFlagsAnyToken(a) == ~Empty(a)

\* the loop of Component.run goes on
MoreFlags(a) == ~Empty(a) /\ processFlags(a)

\* the whole loop of Component.run: flags are consumed until the stack is
\* empty, the next token is no flag, or a panic is raised
RECURSIVE flagLoop(_, _, _, _)
flagLoop(c, g, a, v) ==
    IF ~MoreFlags(a) THEN Ret(a, v)
    ELSE LET r == consumeFlag(c, g, a, v)
         IN  IF r.panic # None THEN r ELSE flagLoop(c, g, r.args, r.vals)

(* ---------------------------------------------------------------------- *)
(* Typed accessors: the value returned, or the panic raised                *)
(* ---------------------------------------------------------------------- *)

Value(x) == [panic |-> None, value |-> x]

Raise(msg) == [panic |-> msg, value |-> None]

\* Singular with the default tested before the count: a flag with a default
\* never gives the value of the command line
SingularDefaultFirst(c, flag, recorded, kindName, zero) ==
    LET f == FlagsGet(c.Flags, flag)
    IN  IF f.panic = None /\ f.flag.Default.set THEN Value(f.flag.Default.Value)
        ELSE CASE Len(recorded) = 0 ->
                    IF f.panic # None THEN Raise(f.panic)
                    ELSE IF f.flag.Require
                    THEN Raise(panicf("no value for " \o kindName \o " flag "
                                      \o Quote(flag)))
                    ELSE Value(zero)
               [] Len(recorded) = 1 -> Value(recorded[1])
               [] OTHER ->
                    Raise(panicf("multiple values set for " \o kindName \o " flag "
                                 \o Quote(flag)))

\* the shared shape of GetString, GetInt, GetDuration, GetBool
Singular(c, flag, recorded, kindName, zero) ==
    CASE Len(recorded) = 0 ->
           LET f == FlagsGet(c.Flags, flag)
           IN  IF f.panic # None THEN Raise(f.panic)
               ELSE IF f.flag.Default.set THEN Value(f.flag.Default.Value)
               ELSE IF f.flag.Require
               THEN Raise(panicf("no value for " \o kindName \o " flag " \o Quote(flag)))
               ELSE Value(zero)
      [] Len(recorded) = 1 -> Value(recorded[1])
      [] OTHER ->
           Raise(panicf("multiple values set for " \o kindName \o " flag " \o Quote(flag)))

\* the shared shape of GetStrings, GetInts, GetDurations, GetBools; n is the
\* count the accessor tests against zero
Plural(c, flag, n, recorded, kindName) ==
    IF n = 0
    THEN LET f == FlagsGet(c.Flags, flag)
         IN  IF f.panic # None THEN Raise(f.panic)
             ELSE IF f.flag.Default.set THEN Value(<< f.flag.Default.Value >>)
             ELSE IF f.flag.Require
             THEN Raise(panicf("no value for " \o kindName \o " flag " \o Quote(flag)))
             ELSE Value(recorded)
    ELSE Value(recorded)

GetString(c, v, flag) ==
    Singular(c, flag, Lookup(v.strings, flag), "string", "")

GetStrings(c, v, flag) ==
    Plural(c, flag, stringCount(v, flag), Lookup(v.strings, flag), "string")

GetInt(c, v, flag) ==
    Singular(c, flag, Lookup(v.ints, flag), "int", 0)

GetInts(c, v, flag) ==
    Plural(c, flag, intCount(v, flag), Lookup(v.ints, flag), "int")

GetDuration(c, v, flag) ==
    Singular(c, flag, Lookup(v.durations, flag), "duration", 0)

GetDurations(c, v, flag) ==
    Plural(c, flag, intCount(v, flag), Lookup(v.durations, flag), "duration")

GetBool(c, v, flag) ==
    Singular(c, flag, Lookup(v.bools, flag), "boolean", FALSE)

GetBools(c, v, flag) ==
    Plural(c, flag, boolCount(v, flag), Lookup(v.bools, flag), "boolean")

SingularOf(k) ==
    CASE k = StringFlag -> "GetString" [] k = IntFlag -> "GetInt"
      [] k = BooleanFlag -> "GetBool" [] k = DurationFlag -> "GetDuration"

PluralOf(k) ==
    CASE k = StringFlag -> "GetStrings" [] k = IntFlag -> "GetInts"
      [] k = BooleanFlag -> "GetBools" [] k = DurationFlag -> "GetDurations"

\* the accessor acc called on node c
Access(acc, c, v, flag) ==
    CASE acc = "GetString" -> GetString(c, v, flag)
      [] acc = "GetStrings" -> GetStrings(c, v, flag)
      [] acc = "GetInt" -> GetInt(c, v, flag)
      [] acc = "GetInts" -> GetInts(c, v, flag)
      [] acc = "GetDuration" -> GetDuration(c, v, flag)
      [] acc = "GetDurations" -> GetDurations(c, v, flag)
      [] acc = "GetBool" -> GetBool(c, v, flag)
      [] acc = "GetBools" -> GetBools(c, v, flag)
      [] OTHER -> Value(None)

(* ---------------------------------------------------------------------- *)
(* Help renderer                                                           *)
(* ---------------------------------------------------------------------- *)

tab == "  "

RECURSIVE Spaces(_)
Spaces(n) == IF n <= 0 THEN "" ELSE " " \o Spaces(n - 1)

leftPad(size, s) == Spaces((size + 1) - Len(s)) \o s \o " "

rightPad(size, s) == s \o Spaces((size + 1) - Len(s))

\* the largest length of column col over the lines
RECURSIVE MaxWidth(_, _)
MaxWidth(lines, col) ==
    IF Len(lines) = 0 THEN 0
    ELSE LET rest == MaxWidth(Tail(lines), col)
             here == Len(Head(lines)[col])
         IN  IF here > rest THEN here ELSE rest

TypeString(t) ==
    CASE t = StringFlag -> "string" [] t = IntFlag -> "integer"
      [] t = BooleanFlag -> "boolean" [] t = DurationFlag -> "duration"

\* Flag.help: the three columns of a flag's line
FlagHelp(f) ==
    << IF f.Long # "" /\ f.Short # "" THEN "--" \o f.Long \o "/-" \o f.Short
       ELSE IF f.Long # "" THEN "--" \o f.Long
       ELSE "-" \o f.Short,
       TypeString(f.Type),
       f.Help >>

RECURSIVE FlagLines(_, _, _)
FlagLines(lines, max0, max1) ==
    IF Len(lines) = 0 THEN ""
    ELSE rightPad(max0, Head(lines)[1]) \o leftPad(max1, Head(lines)[2]) \o "- "
         \o Head(lines)[3] \o "\n" \o FlagLines(Tail(lines), max0, max1)

\* Flags.write
FlagsWrite(fs) ==
    LET lines == [i \in 1..Len(fs) |-> FlagHelp(fs[i])]
    IN  FlagLines(lines, MaxWidth(lines, 1), MaxWidth(lines, 2))

RECURSIVE ComponentLines(_, _)
ComponentLines(lines, max0) ==
    IF Len(lines) = 0 THEN ""
    ELSE "  " \o rightPad(max0, Head(lines)[1]) \o "- " \o Head(lines)[2] \o "\n"
         \o ComponentLines(Tail(lines), max0)

\* Components.write; the commands of the model carry no help summary
ComponentsWrite(nodes, cs) ==
    LET lines == [i \in 1..Len(cs) |-> <<nodes[cs[i]].Name, "">>]
    IN  ComponentLines(lines, MaxWidth(lines, 1))

RECURSIVE TrimSpace(_)
TrimSpace(s) ==
    IF Len(s) > 0 /\ Head(s) \in {" ", "\n"} THEN TrimSpace(Tail(s))
    ELSE IF Len(s) > 0 /\ SubSeq(s, Len(s), Len(s)) \in {" ", "\n"}
    THEN TrimSpace(SubSeq(s, 1, Len(s) - 1))
    ELSE s

\* Component.help of node c holding version ver and globals g; the commands
\* of the model have an empty Help and Description
help(nodes, c, ver, g) ==
    TrimSpace(
        "NAME:\n" \o tab \o c.Name \o "\n\n"
        \o "USAGE:\n" \o tab \o c.Name \o tab
        \o "[global options] [command [command options]] [arguments...]" \o "\n\n"
        \o (IF ver # "" THEN "VERSION:\n" \o tab \o ver \o "\n\n" ELSE "")
        \o (IF Len(c.Components) > 0
            THEN "COMMANDS:\n" \o ComponentsWrite(nodes, c.Components) \o "\n" ELSE "")
        \o (IF Len(c.Flags) > 0
            THEN "OPTIONS:\n" \o FlagsWrite(c.Flags) \o "\n" ELSE "")
        \o (IF Len(g) > 0
            THEN "GLOBALS:\n" \o FlagsWrite(g) \o "\n" ELSE ""))

(* ---------------------------------------------------------------------- *)
(* Components, handlers                                                    *)
(* ---------------------------------------------------------------------- *)

Leaf(c) == Len(c.Components) = 0

ComponentsContains(nodes, cs, name) == \E i \in 1..Len(cs) : nodes[cs[i]].Name = name

\* Components.Get without the comparison of names: the first child is taken
ComponentsGetFirst(nodes, cs, name) == [panic |-> None, cmd |-> cs[1]]

\* Components.Get: the first child called name, or the panic raised
ComponentsGet(nodes, cs, name) ==
    IF ComponentsContains(nodes, cs, name)
    THEN [panic |-> None,
          cmd |-> cs[CHOOSE i \in 1..Len(cs) :
                        /\ nodes[cs[i]].Name = name
                        /\ \A j \in 1..(i - 1) : nodes[cs[j]].Name # name]]
    ELSE [panic |-> panicf("subcommand " \o Quote(name) \o " is not defined"),
          cmd |-> 0]

\* no handler has run
NoCall == [acc |-> None, flag |-> None, ret |-> -1, mutates |-> FALSE]

\* what a handler does: it calls one accessor on a flag of its command and
\* returns Success, or it calls none and returns any code
Programs(c) ==
    { [acc |-> SingularOf(c.Flags[i].Type), flag |-> Identity(c.Flags[i]),
       ret |-> Success, mutates |-> FALSE] : i \in 1..Len(c.Flags) }
    \cup
    { [acc |-> PluralOf(c.Flags[i].Type), flag |-> Identity(c.Flags[i]),
       ret |-> Success, mutates |-> FALSE] : i \in 1..Len(c.Flags) }
    \cup
    { [acc |-> "none", flag |-> "", ret |-> r, mutates |-> FALSE] :
        r \in {Success, Failure, Usability} }

\* what a handler does with the slice a plural accessor gave it: it writes
\* into the first element, calls the accessor again and returns Success
MutatingPrograms(c) ==
    { [acc |-> PluralOf(c.Flags[i].Type), flag |-> Identity(c.Flags[i]),
       ret |-> Success, mutates |-> TRUE] : i \in 1..Len(c.Flags) }

\* a slice that shares the backing array of s
slicesShare(s) == [shared |-> TRUE, elems |-> s]

\* slices.Clone(s): a slice with the elements of s and an array of its own
slicesClone(s) == [shared |-> FALSE, elems |-> s]

\* the value a handler writes over x
Changed(k, x) ==
    CASE k = StringFlag -> x \o "!" [] k = IntFlag -> x + 1
      [] k = BooleanFlag -> ~x [] k = DurationFlag -> x + 1

\* the store after a write to the first element of the array that holds the
\* sequence of flag f
WriteFirst(v, f) ==
    CASE f.Type = StringFlag ->
           [v EXCEPT !.strings[Identity(f)][1] = Changed(f.Type, @)]
      [] f.Type = IntFlag ->
           [v EXCEPT !.ints[Identity(f)][1] = Changed(f.Type, @)]
      [] f.Type = BooleanFlag ->
           [v EXCEPT !.bools[Identity(f)][1] = Changed(f.Type, @)]
      [] f.Type = DurationFlag ->
           [v EXCEPT !.durations[Identity(f)][1] = Changed(f.Type, @)]

\* the flags declared by the commands i, i+1, ... of the tree
RECURSIVE FlagsOfNodes(_, _)
FlagsOfNodes(nodes, i) ==
    IF i > Len(nodes) THEN <<>> ELSE nodes[i].Flags \o FlagsOfNodes(nodes, i + 1)

\* the sequence stored in v for flag f
Stored(v, f) ==
    CASE f.Type = StringFlag -> Lookup(v.strings, Identity(f))
      [] f.Type = IntFlag -> Lookup(v.ints, Identity(f))
      [] f.Type = BooleanFlag -> Lookup(v.bools, Identity(f))
      [] f.Type = DurationFlag -> Lookup(v.durations, Identity(f))

\* what a handler does with the values recorded higher in the chain: it calls
\* one accessor on a flag that the command c does not declare and that has a
\* recorded value, and returns Success
\* command m is command n or below it
RECURSIVE Below(_, _, _)
Below(nodes, n, m) ==
    \/ n = m
    \/ \E i \in 1..Len(nodes[n].Components) : Below(nodes, nodes[n].Components[i], m)

\* the flags declared on the commands above command cu, and the globals g
AncestorFlags(nodes, cu, g) ==
    UNION { { nodes[n].Flags[i] : i \in 1..Len(nodes[n].Flags) } :
              n \in { x \in 1..Len(nodes) : x # cu /\ Below(nodes, x, cu) } }
    \cup { g[i] : i \in 1..Len(g) }

\* handlers that ask for a flag of an ancestor or of the globals which the
\* command itself does not declare and for which nothing was recorded
UnsuppliedPrograms(nodes, cu, g, v) ==
    LET fs == { f \in AncestorFlags(nodes, cu, g) :
                  /\ ~FlagsContains(nodes[cu].Flags, Identity(f))
                  /\ Len(Stored(v, f)) = 0 }
    IN  { [acc |-> SingularOf(f.Type), flag |-> Identity(f),
           ret |-> Success, mutates |-> FALSE] : f \in fs }
        \cup
        { [acc |-> PluralOf(f.Type), flag |-> Identity(f),
           ret |-> Success, mutates |-> FALSE] : f \in fs }

\* handlers that ask for the arguments left, or for their number, twice
ArgumentPrograms ==
    { [acc |-> a, flag |-> "", ret |-> Success, mutates |-> FALSE] :
        a \in {"Arguments", "Nargs"} }

\* the loop of Component.Arguments: i counts up while the stack shrinks
RECURSIVE ArgumentsLoop(_, _, _)
ArgumentsLoop(i, a, fl) ==
    IF i < Len(a) THEN ArgumentsLoop(i + 1, Pop(a), Append(fl, Peek(a)))
    ELSE [flat |-> fl, args |-> a]

\* Component.Arguments of a command holding the slice fl and the stack a
Arguments(fl, a) ==
    IF Len(fl) = 0 /\ Len(a) > 0 THEN ArgumentsLoop(0, a, <<>>)
    ELSE [flat |-> fl, args |-> a]

\* what a call of the accessor acc returns after Arguments gave r
ArgumentsValue(acc, r) ==
    IF acc = "Nargs" THEN Value(Len(r.flat)) ELSE Value(r.flat)

InheritedPrograms(nodes, c, g, v) ==
    LET fs   == FlagsOfNodes(nodes, 1) \o g
        held == { j \in 1..Len(fs) :
                    /\ ~FlagsContains(c.Flags, Identity(fs[j]))
                    /\ Len(Stored(v, fs[j])) > 0 }
    IN  { [acc |-> SingularOf(fs[i].Type), flag |-> Identity(fs[i]),
           ret |-> Success, mutates |-> FALSE] : i \in held }
        \cup
        { [acc |-> PluralOf(fs[i].Type), flag |-> Identity(fs[i]),
           ret |-> Success, mutates |-> FALSE] : i \in held }

(* ---------------------------------------------------------------------- *)
(* validation.go                                                           *)
(* ---------------------------------------------------------------------- *)

\* the lines Component.validate writes for the flags fs
RECURSIVE validateFlags(_)
validateFlags(fs) ==
    IF Len(fs) = 0 THEN <<>>
    ELSE LET f == Head(fs)
         IN  (IF Len(f.Long) = 1
              THEN << "babycli: long flag " \o Quote(f.Long)
                      \o " must be more than one character\n" >>
              ELSE <<>>)
             \o (IF Len(f.Short) > 1
                 THEN << "babycli: short flag " \o Quote(f.Short)
                         \o " must be one character\n" >>
                 ELSE <<>>)
             \o validateFlags(Tail(fs))

\* the lines Component.validate writes for the child commands cs
RECURSIVE validateComponents(_, _)
validateComponents(nodes, cs) ==
    IF Len(cs) = 0 THEN <<>>
    ELSE LET name == nodes[Head(cs)].Name
         IN  (CASE Len(name) = 0 -> << "babycli: component name missing\n" >>
                [] Len(name) = 1 ->
                     << "babycli: component " \o Quote(name)
                        \o " must be more than one character\n" >>
                [] OTHER -> <<>>)
             \o validateComponents(nodes, Tail(cs))

\* Component.validate: what it writes, and whether it found nothing
validate(nodes, c) ==
    LET lines == validateFlags(c.Flags) \o validateComponents(nodes, c.Components)
    IN  [ok |-> Len(lines) = 0, lines |-> lines]

(* ---------------------------------------------------------------------- *)
(* The run                                                                 *)
(* ---------------------------------------------------------------------- *)

Node == cfg.nodes[cur]

\* New(config), before Run
Init ==
    /\ \/ \E k \in FlagTypes : \E require, repeats, hasDefault \in BOOLEAN :
            \E line \in Lines(FlatItems(k), MaxItems) :
                cfg = FlatConfig(k, require, repeats, hasDefault, line)
       \/ \E line \in Lines(NestedItems, MaxPathItems) :
            cfg = NestedConfig(line)
       \/ \E k \in FlagTypes : \E line \in Lines(ChainItems(k), MaxItems + 1) :
            cfg = ChainConfig(k, line)
       \/ \E long \in DeclLongs, short \in DeclShorts, childName \in DeclNames :
            \E hasChild \in BOOLEAN :
              \E line \in Lines(DeclItems(childName), MaxItems) :
                cfg = DeclConfig(long, short, childName, hasChild, line)
    /\ args = NewStack(cfg.Arguments)
    /\ vals = NilValues
    /\ cur = Top
    /\ version = cfg.Version
    /\ globals = cfg.Globals \o <<helpFlag>>
    /\ pc = "new"
    /\ output = <<>>
    /\ code = None
    /\ panicMsg = None
    /\ invoked = <<>>
    /\ call = NoCall
    /\ got = Value(None)
    /\ popped = <<>>
    /\ rerun = FALSE
    /\ later = Value(None)
    /\ flat = [n \in 1..Len(cfg.nodes) |-> <<>>]

\* New(config) called once more on the command tree of a run that has
\* returned, with no arguments: the fields New assigns are assigned anew, the
\* others keep what the run left in them
NewAgain ==
    /\ pc = "done"
    /\ ~rerun
    /\ rerun' = TRUE
    /\ cfg' = [cfg EXCEPT !.Arguments = <<>>]
    /\ args' = NewStack(<<>>)
    /\ cur' = Top
    /\ version' = cfg.Version
    /\ globals' = cfg.Globals \o <<helpFlag>>
    /\ pc' = "new"
    /\ output' = <<>>
    /\ code' = None
    /\ panicMsg' = None
    /\ invoked' = <<>>
    /\ call' = NoCall
    /\ got' = Value(None)
    /\ popped' = <<>>
    /\ later' = Value(None)
    /\ UNCHANGED <<vals, flat>>

\* what recover() gives in the body of Runnable.Run: Run calls it directly,
\* not from a deferred function, so it gives nil
RunRecover(panicking) == None

\* Run returning Success whatever the code of the result
ReturnSuccess(c) ==
    /\ pc' = "done"
    /\ code' = Success
    /\ UNCHANGED panicMsg

\* Runnable.Run returns the code of the result
Return(c) ==
    /\ pc' = "done"
    /\ code' = c
    /\ UNCHANGED panicMsg

\* a panic unwinds Component.run and Runnable.Run; what Run makes of it
Unwind(msg) ==
    IF RunRecover(msg) # None
    THEN /\ pc' = "done"
         /\ code' = Failure
         /\ panicMsg' = msg
    ELSE /\ pc' = "panicked"
         /\ panicMsg' = msg
         /\ UNCHANGED code

\* the tokens taken off the stack by a step that leaves the stack a
Taken(a) == Reverse(SubSeq(args, Len(a) + 1, Len(args)))

\* Runnable.Run up to the entry of the root's Component.run and its init
Run ==
    /\ pc = "new"
    /\ IF RunRecover(None) # None
       THEN Return(Failure) /\ UNCHANGED vals
       ELSE /\ pc' = "flags"
            /\ vals' = IF vals = NilValues THEN NewValues ELSE vals
            /\ UNCHANGED <<code, panicMsg>>
    /\ UNCHANGED <<flat, later, rerun, cfg, args, cur, version, globals, output, invoked, call,
                   got, popped>>

\* one round of the loop of Component.run: one flag is consumed
ConsumingFlags ==
    /\ pc = "flags"
    /\ MoreFlags(args)
    /\ LET r == consumeFlag(Node, globals, args, vals)
       IN  /\ args' = r.args
           /\ vals' = r.vals
           /\ popped' = popped \o Taken(r.args)
           /\ IF r.panic # None
              THEN Unwind(r.panic)
              ELSE UNCHANGED <<pc, code, panicMsg>>
    /\ UNCHANGED <<flat, later, rerun, cfg, cur, version, globals, output, invoked, call, got>>

\* the dispatch not waiting for the end of the loop
DispatchingAnytime == pc = "flags"

\* the loop of Component.run is over
Dispatching == pc = "flags" /\ ~MoreFlags(args)

HelpRequested ==
    /\ Dispatching
    /\ helpSet(vals)
    /\ output' = writef(output, help(cfg.nodes, Node, version, globals))
    /\ Return(Success)
    /\ UNCHANGED <<flat, later, rerun, cfg, args, vals, cur, version, globals, invoked, call,
                   got, popped>>

LeafExecuting ==
    /\ Dispatching
    /\ ~helpSet(vals)
    /\ Leaf(Node) /\ Node.Function
    /\ \E prog \in Programs(Node) \cup MutatingPrograms(Node) \cup ArgumentPrograms
                     \cup InheritedPrograms(cfg.nodes, Node, globals, vals)
                     \cup UnsuppliedPrograms(cfg.nodes, cur, globals, vals) :
         LET asks   == prog.acc \in {"Arguments", "Nargs"}
             \* the first and the second call of Arguments or Nargs
             first  == Arguments(flat[cur], args)
             second == Arguments(first.flat, first.args)
             r      == IF asks THEN ArgumentsValue(prog.acc, first)
                       ELSE Access(prog.acc, Node, vals, prog.flag)
             f      == FlagsGet(Node.Flags, prog.flag).flag
             \* the slice of the accessor's last return statement
             ref    == slicesClone(Stored(vals, f))
             \* the handler holds that slice, not the one built from a default
             writes == /\ prog.mutates /\ r.panic = None
                       /\ Len(ref.elems) > 0 /\ r.value = ref.elems
             v2     == IF writes /\ ref.shared THEN WriteFirst(vals, f) ELSE vals
         IN  /\ call' = prog
             /\ got' = r
             /\ vals' = v2
             /\ later' = IF asks THEN ArgumentsValue(prog.acc, second)
                         ELSE IF prog.mutates /\ r.panic = None
                         THEN Access(prog.acc, Node, v2, prog.flag)
                         ELSE Value(None)
             /\ args' = IF asks THEN second.args ELSE args
             /\ flat' = IF asks THEN [flat EXCEPT ![cur] = second.flat] ELSE flat
             /\ popped' = IF asks THEN popped \o Taken(second.args) ELSE popped
             /\ invoked' = Append(invoked, cur)
             /\ IF r.panic # None
                THEN Unwind(r.panic) /\ UNCHANGED output
                ELSE IF prog.ret = Usability
                THEN /\ output' = writef(output,
                                         help(cfg.nodes, Node, version, globals))
                     /\ Return(Failure)
                ELSE Return(prog.ret) /\ UNCHANGED output
    /\ UNCHANGED <<rerun, cfg, cur, version, globals>>

\* InsufficientArgs returning the Success code
InsufficientArgsSuccess ==
    /\ Dispatching
    /\ ~helpSet(vals)
    /\ ~(Leaf(Node) /\ Node.Function)
    /\ Empty(args)
    /\ output' = writef(output, help(cfg.nodes, Node, version, globals))
    /\ Return(Success)
    /\ UNCHANGED <<flat, later, rerun, cfg, args, vals, cur, version, globals, invoked, call,
                   got, popped>>

InsufficientArgs ==
    /\ Dispatching
    /\ ~helpSet(vals)
    /\ ~(Leaf(Node) /\ Node.Function)
    /\ Empty(args)
    /\ output' = writef(output, help(cfg.nodes, Node, version, globals))
    /\ Return(Failure)
    /\ UNCHANGED <<flat, later, rerun, cfg, args, vals, cur, version, globals, invoked, call,
                   got, popped>>

\* the descent without the Pop: the name stays on the stack of the child
DescendingNoPop ==
    /\ Dispatching
    /\ ~helpSet(vals)
    /\ ~(Leaf(Node) /\ Node.Function)
    /\ ~Empty(args)
    /\ LET sub == Peek(args)
           r   == ComponentsGet(cfg.nodes, Node.Components, sub)
       IN  /\ args' = args
           /\ popped' = Append(popped, sub)
           /\ IF r.panic # None
              THEN Unwind(r.panic) /\ UNCHANGED <<cur, version>>
              ELSE /\ cur' = r.cmd
                   /\ version' = ""
                   /\ UNCHANGED <<pc, code, panicMsg>>
    /\ UNCHANGED <<flat, later, rerun, cfg, vals, globals, output, invoked, call, got>>

Descending ==
    /\ Dispatching
    /\ ~helpSet(vals)
    /\ ~(Leaf(Node) /\ Node.Function)
    /\ ~Empty(args)
    /\ LET sub == Peek(args)
           r   == ComponentsGet(cfg.nodes, Node.Components, sub)
       IN  /\ args' = Pop(args)
           /\ popped' = Append(popped, sub)
           /\ IF r.panic # None
              THEN Unwind(r.panic) /\ UNCHANGED <<cur, version>>
              ELSE /\ cur' = r.cmd
                   /\ version' = ""
                   /\ UNCHANGED <<pc, code, panicMsg>>
    /\ UNCHANGED <<flat, later, rerun, cfg, vals, globals, output, invoked, call, got>>

Next ==
    \/ Run
    \/ ConsumingFlags
    \/ HelpRequested
    \/ LeafExecuting
    \/ InsufficientArgs
    \/ Descending
    \/ NewAgain

Spec == Init /\ [][Next]_vars

\* number of tokens of the command lines whose runs are followed to their end
MaxLiveTokens == 3

\* the programs of Init that declare no duration flag, with a command line
\* of at most MaxLiveTokens tokens
LiveInit ==
    /\ Init
    /\ cfg.kind # DurationFlag
    /\ Len(cfg.Arguments) <= MaxLiveTokens

\* Run is one synchronous call: a step that can be taken is taken
LiveSpec == LiveInit /\ [][Next]_vars /\ WF_vars(Next)

(* ---------------------------------------------------------------------- *)
(* What the command line supplies, read off the arguments themselves       *)
(* ---------------------------------------------------------------------- *)

Terminated == pc \in {"done", "panicked"}

\* the typed value a value token of the model stands for
Typed(tok) ==
    CASE tok = "bob" -> "bob" [] tok = "carl" -> "carl"
      [] tok = "20" -> 20 [] tok = "30" -> 30
      [] tok = "true" -> TRUE [] tok = "false" -> FALSE
      [] tok = "2m" -> 120000 [] tok = "1m30s" -> 90000

FlagTokens(f) == { "--" \o f.Long, "-" \o f.Short }

\* the ways flag f is given with a value on a command line
Uses(f) ==
    { <<n, v>> : n \in FlagTokens(f),
                 v \in {ValueTokens(f.Type)[1], ValueTokens(f.Type)[2]} }
    \cup (IF f.Type = BooleanFlag THEN { <<n>> : n \in FlagTokens(f) } ELSE {})

\* the values a line made of uses supplies for flag f, in command-line order
RECURSIVE Supplied(_, _)
Supplied(line, f) ==
    IF Len(line) = 0 THEN <<>>
    ELSE IF Head(line) \notin FlagTokens(f) THEN Supplied(Tail(line), f)
    ELSE IF f.Type = BooleanFlag
              /\ (Len(line) = 1 \/ line[2] \notin {"true", "false"})
    THEN <<TRUE>> \o Supplied(Tail(line), f)
    ELSE <<Typed(line[2])>> \o Supplied(Tail(Tail(line)), f)

\* the ways the flags of node c are given
NodeUses(c) == UNION { Uses(c.Flags[i]) : i \in 1..Len(c.Flags) }

IsPrefix(u, line) == Len(u) <= Len(line) /\ SubSeq(line, 1, Len(u)) = u

\* whether the line leads from node n to the leaf: at each command on the
\* way its own flags, each with a value, then the name of the next command
RECURSIVE OnPath(_, _, _, _)
OnPath(nodes, n, leaf, line) ==
    \/ n = leaf /\ line = <<>>
    \/ \E u \in NodeUses(nodes[n]) :
          /\ IsPrefix(u, line)
          /\ OnPath(nodes, n, leaf, SubSeq(line, Len(u) + 1, Len(line)))
    \/ /\ n # leaf
       /\ line # <<>>
       /\ \E i \in 1..Len(nodes[n].Components) :
             /\ nodes[nodes[n].Components[i]].Name = Head(line)
             /\ \A j \in 1..(i - 1) : nodes[nodes[n].Components[j]].Name # Head(line)
             /\ OnPath(nodes, nodes[n].Components[i], leaf, Tail(line))

\* the sequence recorded in the store for flag f
Recorded(f) ==
    CASE f.Type = StringFlag -> Lookup(vals.strings, Identity(f))
      [] f.Type = IntFlag -> Lookup(vals.ints, Identity(f))
      [] f.Type = BooleanFlag -> Lookup(vals.bools, Identity(f))
      [] f.Type = DurationFlag -> Lookup(vals.durations, Identity(f))

\* the flag the handler asked for: one of the current node, else one of the
\* globals or of another command
Asked ==
    FlagsGet(Node.Flags \o globals \o FlagsOfNodes(cfg.nodes, 1), call.flag).flag

SingularCall == call.acc \in {"GetString", "GetInt", "GetBool", "GetDuration"}

PluralCall == call.acc \in {"GetStrings", "GetInts", "GetBools", "GetDurations"}

\* the word the accessors' messages use for a kind
KindWord(k) ==
    CASE k = StringFlag -> "string" [] k = IntFlag -> "int"
      [] k = BooleanFlag -> "boolean" [] k = DurationFlag -> "duration"

\* the zero value of a kind
Zero(k) ==
    CASE k = StringFlag -> "" [] k = IntFlag -> 0
      [] k = BooleanFlag -> FALSE [] k = DurationFlag -> 0

(* ---------------------------------------------------------------------- *)
(* Claims                                                                  *)
(* ---------------------------------------------------------------------- *)

\* C1: whenever a fatal error was raised in a run, Run has returned the
\* Failure code to its caller: the panic does not leave Run.
C1_FatalReturnsFailure ==
    panicMsg # None => (pc = "done" /\ code = Failure)

\* C2: a run ended by a fatal error leaves exactly that error's message,
\* which starts with "babycli: ", in the output sink, written once and alone;
\* a run that succeeds without help leaves the sink empty.
C2_SinkHoldsFatalMessage ==
    /\ (Terminated /\ panicMsg # None) =>
          (output = <<panicMsg>> /\ HasPrefix(panicMsg, "babycli: "))
    /\ (pc = "done" /\ code = Success /\ ~helpSet(vals)) => output = <<>>

\* C3: on a command line that spells a path from the root to a leaf, each
\* command's own flags given after its name, the walker ends in that leaf,
\* the handler of that leaf and of no other command is invoked, and the run
\* returns Success when the handler does.
C3_PathReachesLeaf ==
    \A leaf \in 1..Len(cfg.nodes) :
        (/\ ~rerun
         /\ Leaf(cfg.nodes[leaf]) /\ cfg.nodes[leaf].Function
         /\ OnPath(cfg.nodes, Top, leaf, cfg.Arguments)) =>
            /\ invoked \in { <<>>, <<leaf>> }
            /\ Terminated =>
                 /\ cur = leaf
                 /\ invoked = <<leaf>>
                 /\ (panicMsg = None /\ call.ret = Success) =>
                        (pc = "done" /\ code = Success)

C3_Witness ==
    /\ pc = "done"
    /\ cfg.Arguments = <<"--verbose", "first", "second", "-n", "bob">>
    /\ cur = 3
    /\ invoked = <<3>>
    /\ call.ret = Success
    /\ code = Success

\* C4: when exactly one value was recorded for a flag, the singular accessor
\* returns it, and it is the value the command line supplied, whatever the
\* flag's default, Require and Repeats and whichever of its names was used.
C4_SingularReturnsTheValue ==
    (Terminated /\ SingularCall) =>
        /\ Len(Recorded(Asked)) = 1 =>
              (got.panic = None /\ got.value = Recorded(Asked)[1])
        /\ (/\ OnPath(cfg.nodes, Top, cur, cfg.Arguments)
            /\ Len(Supplied(cfg.Arguments, Asked)) = 1) =>
              (got.panic = None /\ got.value = Supplied(cfg.Arguments, Asked)[1])

C4_Witness ==
    /\ pc = "done"
    /\ cfg.Arguments = <<"-t", "1m30s">>
    /\ Node.Flags[1].Default.set /\ Node.Flags[1].Require /\ Node.Flags[1].Repeats
    /\ call.acc = "GetDuration"
    /\ got.panic = None /\ got.value = 90000

\* the flag asked for is not declared on the command of the handler
Inherited == ~FlagsContains(Node.Flags, call.flag)

\* C5: when no value was recorded for a flag, the singular accessor returns
\* the default if the flag has one; else, if the flag is required, the run
\* fails with "no value for <kind> flag" and Run returns Failure; else the
\* accessor returns the zero value of the kind. (Flags of the handler's own
\* command; those of its ancestors are the matter of C36.)
C5_SingularWithoutValue ==
    (Terminated /\ SingularCall /\ ~Inherited /\ Len(Recorded(Asked)) = 0) =>
        IF Asked.Default.set
        THEN got.panic = None /\ got.value = Asked.Default.Value
        ELSE IF Asked.Require
        THEN /\ panicMsg = "babycli: no value for " \o KindWord(Asked.Type)
                              \o " flag " \o Quote(call.flag)
             /\ pc = "done"
             /\ code = Failure
        ELSE got.panic = None /\ got.value = Zero(Asked.Type)

\* C6: when more than one value was recorded for a flag, the singular
\* accessor fails with "multiple values set for <kind> flag" and Run returns
\* Failure, whether the flag is declared Repeats or not.
C6_SingularWithManyValues ==
    (Terminated /\ SingularCall /\ Len(Recorded(Asked)) > 1) =>
        /\ panicMsg = "babycli: multiple values set for " \o KindWord(Asked.Type)
                         \o " flag " \o Quote(call.flag)
        /\ pc = "done"
        /\ code = Failure

\* C7: when at least one value was recorded for a flag, the plural accessor
\* returns all recorded values, which are the values the command line
\* supplied under the long and the short name, in command-line order.
C7_PluralReturnsAllInOrder ==
    (Terminated /\ PluralCall /\ Len(Recorded(Asked)) >= 1) =>
        /\ got.panic = None
        /\ got.value = Recorded(Asked)
        /\ OnPath(cfg.nodes, Top, cur, cfg.Arguments) =>
              got.value = Supplied(cfg.Arguments, Asked)

\* C8: when no value was recorded for a flag, the plural accessor returns
\* the one-element sequence of the default if the flag has one; else, if the
\* flag is required, the run fails with "no value for <kind> flag" and Run
\* returns Failure; else the accessor returns the empty sequence. (Flags of
\* the handler's own command; those of its ancestors are the matter of C36.)
C8_PluralWithoutValue ==
    (Terminated /\ PluralCall /\ ~Inherited /\ Len(Recorded(Asked)) = 0) =>
        IF Asked.Default.set
        THEN got.panic = None /\ got.value = << Asked.Default.Value >>
        ELSE IF Asked.Require
        THEN /\ panicMsg = "babycli: no value for " \o KindWord(Asked.Type)
                              \o " flag " \o Quote(call.flag)
             /\ pc = "done"
             /\ code = Failure
        ELSE got.panic = None /\ got.value = <<>>

\* the flags a token is resolved against at the current command
Combined == Node.Flags \o globals

\* the walker is about to consume the token on top as flag f
OnTop(f) == pc = "flags" /\ ~Empty(args) /\ Peek(args) \in FlagTokens(f)

\* C9 (one step): consuming a boolean flag whose next token is not true or
\* false, or is missing, records true and leaves that token; when the next
\* token is true or false it is consumed and its value recorded.
BoolStep(f) ==
    LET rest == Pop(args)
        old  == Lookup(vals.bools, Identity(f))
    IN  IF Empty(rest) \/ Peek(rest) \notin {"true", "false"}
        THEN /\ args' = rest
             /\ Lookup(vals'.bools, Identity(f)) = Append(old, TRUE)
        ELSE /\ args' = Pop(rest)
             /\ Lookup(vals'.bools, Identity(f)) = Append(old, Peek(rest) = "true")

\* C9 (whole lines): --flag alone gives true, --flag true gives true and
\* --flag false gives false.
\* the handler invoked asked for the arguments left on the stack
AsksArguments == call.acc \in {"Arguments", "Nargs"}

BoolLines ==
    (Terminated /\ cfg.shape = "flat" /\ cfg.kind = BooleanFlag /\ ~AsksArguments) =>
        /\ cfg.Arguments = <<"--verbose">> => Lookup(vals.bools, "verbose") = <<TRUE>>
        /\ cfg.Arguments = <<"--verbose", "true">> =>
              (Lookup(vals.bools, "verbose") = <<TRUE>> /\ args = <<>>)
        /\ cfg.Arguments = <<"--verbose", "false">> =>
              (Lookup(vals.bools, "verbose") = <<FALSE>> /\ args = <<>>)
        /\ cfg.Arguments = <<"--verbose", "yes">> =>
              (Lookup(vals.bools, "verbose") = <<TRUE>> /\ args = <<"yes">>)

\* C9: a boolean flag records true and leaves the next token unless that
\* token is exactly true or false, which is then consumed and recorded.
C9_BooleanConsumption ==
    /\ [][ \A i \in 1..Len(Combined) :
             (Combined[i].Type = BooleanFlag /\ OnTop(Combined[i])) =>
                 BoolStep(Combined[i]) ]_vars
    /\ []BoolLines

C9_Witness ==
    /\ pc = "done"
    /\ cfg.Arguments = <<"-v", "false", "--verbose">>
    /\ Lookup(vals.bools, "verbose") = <<FALSE, TRUE>>
    /\ popped = <<"-v", "false", "--verbose">>

\* C10 (one step): consuming a string, integer or duration flag
ValueStep(f) ==
    LET rest == Pop(args)
        old  == Lookup(vals.strings, Identity(f))
    IN  IF Empty(rest) \/ HasPrefix(Peek(rest), "-")
        THEN /\ Terminated' /\ panicMsg' # None
             /\ HasPrefix(panicMsg', "babycli: no value for ")
             /\ args' = rest
             /\ vals' = vals
        ELSE /\ args' = Pop(rest)
             /\ f.Type = StringFlag =>
                  /\ panicMsg' = None
                  /\ Lookup(vals'.strings, Identity(f)) = Append(old, Peek(rest))

\* C10: a string, integer or duration flag with no next token, or whose next
\* token starts with "-", aborts the run with a "no value" error, leaving
\* that token and recording nothing; otherwise exactly one token is consumed
\* as its value, which a string flag records verbatim.
C10_ValueConsumption ==
    [][ \A i \in 1..Len(Combined) :
          (Combined[i].Type \in {StringFlag, IntFlag, DurationFlag}
             /\ OnTop(Combined[i])) => ValueStep(Combined[i]) ]_vars

C10_Witness ==
    /\ Terminated
    /\ cfg.Arguments = <<"--age", "-5">>
    /\ args = <<"-5">>
    /\ panicMsg = "babycli: no value for int flag \"age\""
    /\ vals.ints = <<>>

\* position of the first "=" of s, 0 when there is none
RECURSIVE IndexEq(_)
IndexEq(s) ==
    IF Len(s) = 0 THEN 0
    ELSE IF Head(s) = "=" THEN 1
    ELSE LET r == IndexEq(Tail(s)) IN IF r = 0 THEN 0 ELSE r + 1

\* a flag token of the form name=value
EqToken(tok) == HasPrefix(tok, "-") /\ IndexEq(tok) > 0

\* the line with every name=value token replaced by the tokens name, value
RECURSIVE TwoTokens(_)
TwoTokens(line) ==
    IF Len(line) = 0 THEN <<>>
    ELSE LET t == Head(line)
             i == IndexEq(t)
         IN  (IF EqToken(t)
              THEN <<SubSeq(t, 1, i - 1), SubSeq(t, i + 1, Len(t))>>
              ELSE <<t>>) \o TwoTokens(Tail(line))

HasEqToken(line) == \E i \in 1..Len(line) : EqToken(line[i])

\* the flag loop of the root run on the line written with two tokens
TwoTokenRun == flagLoop(cfg.nodes[Top], globals, NewStack(TwoTokens(cfg.Arguments)),
                        NewValues)

\* C11: a run on a line holding a token --n=v (or -s=v) of a declared flag
\* records the same values and ends the same way as the run on the line with
\* that token written as the two tokens --n, v.
C11_EqualsFormSameAsTwoTokens ==
    (Terminated /\ cfg.shape = "flat" /\ HasEqToken(cfg.Arguments)) =>
        /\ vals = TwoTokenRun.vals
        /\ (TwoTokenRun.panic = None) = (invoked # <<>> \/ helpSet(vals))
        /\ TwoTokenRun.panic # None => panicMsg = TwoTokenRun.panic

\* C12: when the root command, the first node entered, declares a long flag
\* name of one character, a short flag name of more than one character, or a
\* child whose name is empty or one character long, the run writes one line
\* per violation to the sink, returns Failure, invokes no handler and
\* consumes no token.
C12_InvalidDeclarationFails ==
    (Terminated /\ ~validate(cfg.nodes, cfg.nodes[Top]).ok) =>
        /\ output = validate(cfg.nodes, cfg.nodes[Top]).lines
        /\ pc = "done" /\ code = Failure
        /\ invoked = <<>>
        /\ popped = <<>>

\* the values recorded for the help flag, given as --help or -h
HelpValues == Lookup(vals.bools, "help")

\* flag consumption at the current node is over
FlagsDone == pc = "flags" /\ (Empty(args) \/ ~HasPrefix(Peek(args), "-"))

\* the first lines of the help text of node c
HelpHead(c) == "NAME:\n  " \o c.Name \o "\n\nUSAGE:\n  " \o c.Name \o "  [global"

\* C13 (help recorded as true): the help text of the current node is written,
\* the run returns Success, no handler runs and no child is entered.
HelpShortCircuit ==
    /\ Len(output') = Len(output) + 1
    /\ HasPrefix(output'[Len(output')], HelpHead(Node))
    /\ pc' = "done" /\ code' = Success /\ panicMsg' = None
    /\ invoked' = invoked /\ cur' = cur /\ args' = args

\* C13 (help recorded only as false): the node goes on as without help: a
\* leaf invokes its handler, a branch with an empty stack fails, another
\* branch pops the name of a child.
HelpIgnored ==
    IF Leaf(Node) THEN invoked' = Append(invoked, cur)
    ELSE IF Empty(args) THEN pc' = "done" /\ code' = Failure /\ invoked' = invoked
    ELSE args' = Pop(args) /\ output' = output

\* C13: after flag consumption, a recorded true value of help makes the run
\* write the current node's help and return Success without handler or
\* descent; help recorded only as false changes nothing.
C13_HelpShortCircuits ==
    [][ FlagsDone =>
          /\ (\E i \in 1..Len(HelpValues) : HelpValues[i]) => HelpShortCircuit
          /\ (/\ Len(HelpValues) > 0
              /\ \A i \in 1..Len(HelpValues) : ~HelpValues[i]) => HelpIgnored ]_vars

C13_Witness ==
    /\ pc = "done" /\ code = Success
    /\ cfg.shape = "nested"
    /\ cfg.Arguments = <<"--help", "false", "first", "-h", "second">>
    /\ cur = 2
    /\ args = <<"second">>
    /\ invoked = <<>>
    /\ Len(output) = 1 /\ HasPrefix(output[1], HelpHead(cfg.nodes[2]))

\* C14: at a command with children, when the stack is empty once its flags
\* are consumed and help was not asked for, the run writes that command's
\* help text, returns Failure and invokes no handler.
C14_BranchWithoutChildFails ==
    [][ (/\ FlagsDone
         /\ Len(Node.Components) > 0
         /\ Empty(args)
         /\ \A i \in 1..Len(HelpValues) : ~HelpValues[i]) =>
            /\ Len(output') = Len(output) + 1
            /\ HasPrefix(output'[Len(output')], HelpHead(Node))
            /\ pc' = "done" /\ code' = Failure /\ panicMsg' = None
            /\ invoked' = invoked /\ invoked = <<>> ]_vars

C14_Witness ==
    /\ pc = "done" /\ code = Failure
    /\ cfg.shape = "nested"
    /\ cfg.Arguments = <<"--verbose", "first", "--age", "20">>
    /\ cur = 2
    /\ popped = cfg.Arguments
    /\ invoked = <<>>
    /\ Len(output) = 1 /\ HasPrefix(output[1], HelpHead(cfg.nodes[2]))

\* the walker is about to take the token on top as the name of a child
NamingChild ==
    /\ FlagsDone
    /\ Len(Node.Components) > 0
    /\ ~Empty(args)
    /\ \A i \in 1..Len(HelpValues) : ~HelpValues[i]

\* the children of the current node
Children == [i \in 1..Len(Node.Components) |-> cfg.nodes[Node.Components[i]]]

\* C15: at a command with children and a non-empty stack the next token is
\* popped and compared with the children's names: the first child of that
\* name is entered; when there is none, the run ends with the Failure result
\* and the message "subcommand ... is not defined", and no handler runs.
C15_ChildByExactName ==
    [][ NamingChild =>
          /\ args' = Pop(args)
          /\ invoked' = invoked
          /\ IF \E i \in 1..Len(Children) : Children[i].Name = Peek(args)
             THEN \E i \in 1..Len(Children) :
                     /\ Children[i].Name = Peek(args)
                     /\ \A j \in 1..(i - 1) : Children[j].Name # Peek(args)
                     /\ cur' = Node.Components[i]
                     /\ pc' = "flags" /\ panicMsg' = None
             ELSE /\ panicMsg' = "babycli: subcommand " \o Quote(Peek(args))
                                    \o " is not defined"
                  /\ pc' = "done" /\ code' = Failure ]_vars

\* name denotes flag f: a name of one character by the short name, a longer
\* one by the long name
Denotes(f, name) ==
    \/ Len(name) = 1 /\ f.Short = name
    \/ Len(name) > 1 /\ f.Long = name

\* the name of the flag token on top of the stack
TopName == TrimLeftDash(Peek(args))

\* C16: a flag token is resolved against the current command's own flags
\* followed by the globals and nothing else; when its name denotes none of
\* them, also when an ancestor or a descendant declares it, the run ends with
\* the Failure result and the message "flag ... is not defined", records
\* nothing and invokes no handler. (Tokens with a name; a token made of dashes
\* only is the matter of C37.)
C16_FlagResolvedAtNodeOnly ==
    [][ (pc = "flags" /\ ~Empty(args) /\ HasPrefix(Peek(args), "-")
         /\ TopName # "") =>
          IF \E i \in 1..Len(Combined) : Denotes(Combined[i], TopName)
          THEN panicMsg' # "babycli: flag " \o Quote(TopName) \o " is not defined"
          ELSE /\ panicMsg' = "babycli: flag " \o Quote(TopName) \o " is not defined"
               /\ pc' = "done" /\ code' = Failure
               /\ vals' = vals
               /\ invoked' = invoked /\ invoked = <<>> ]_vars

\* sub occurs in s
HasSub(s, sub) ==
    \E i \in 1..(Len(s) - Len(sub) + 1) : SubSeq(s, i, i + Len(sub) - 1) = sub

\* C17 (one step): the child entered holds the parent's remaining stack, the
\* same store, the parent's globals and the parent's version.
ChildInherits ==
    /\ args' = Pop(args)
    /\ vals' = vals
    /\ globals' = globals
    /\ version' = version

\* C17 (help): a help text written at any command shows the configured
\* version and the global flags.
HelpShowsVersionAndGlobals ==
    \A i \in 1..Len(output) :
        HasPrefix(output[i], HelpHead(Node)) =>
            /\ HasSub(output[i], "VERSION:\n  " \o cfg.Version \o "\n")
            /\ HasSub(output[i], "GLOBALS:\n--help/-h")

\* C17: a child is entered with the parent's remaining stack, store, globals
\* and version, so that help written for a descendant shows the configured
\* version and the global flags.
C17_ChildInheritsContext ==
    /\ [][ cur' # cur => ChildInherits ]_vars
    /\ []HelpShowsVersionAndGlobals

\* the handler asked for a flag its own command does not declare
InheritedCall ==
    /\ SingularCall \/ PluralCall
    /\ ~FlagsContains(Node.Flags, call.flag)

\* C18: a value recorded while consuming flags at an ancestor, for a global
\* or for a flag of that ancestor, is in the store the leaf sees: the
\* accessor the leaf's handler calls for that identity returns it, the
\* singular one the single value, the plural one all values in order.
C18_LeafSeesAncestorValues ==
    (Terminated /\ invoked # <<>> /\ InheritedCall /\ Len(Recorded(Asked)) > 0) =>
        /\ (SingularCall /\ Len(Recorded(Asked)) = 1) =>
              (got.panic = None /\ got.value = Recorded(Asked)[1])
        /\ PluralCall => (got.panic = None /\ got.value = Recorded(Asked))
        /\ (OnPath(cfg.nodes, Top, cur, cfg.Arguments) /\ got.panic = None) =>
              got.value = IF PluralCall THEN Supplied(cfg.Arguments, Asked)
                          ELSE Supplied(cfg.Arguments, Asked)[1]

\* C19: the walker sees the tokens in the order of Configuration.Arguments
\* and pops each at most once over the whole descent: at every point of a
\* run on a line without name=value tokens, the tokens popped so far followed
\* by the remaining stack read from its top are the original arguments.
C19_TokensInOrderOnce ==
    ~HasEqToken(cfg.Arguments) => popped \o Reverse(args) = cfg.Arguments

C19_Witness ==
    /\ pc = "flags"
    /\ cfg.shape = "nested"
    /\ cfg.Arguments = <<"--verbose", "first", "--age", "20", "second">>
    /\ cur = 2
    /\ popped = <<"--verbose", "first", "--age", "20">>
    /\ args = <<"second">>

\* the names looked up in the flags of the current command and the globals
LookupNames ==
    { "", "h", "q", "s", "n", "v", "x", "help", "long", "xyz", "name", "verbose",
      "nope" }

\* position of the first flag of fs that name denotes
FirstDenoted(fs, name) ==
    CHOOSE i \in 1..Len(fs) :
        /\ Denotes(fs[i], name)
        /\ \A j \in 1..(i - 1) : ~Denotes(fs[j], name)

\* C20: Flags.Contains(name) is true exactly when some flag has the short
\* name name of one character or the long name name of more than one
\* character; Flags.Get(name) returns the first such flag and aborts with
\* "flag ... is not defined" exactly when Contains(name) is false.
C20_ContainsAndGet ==
    \A name \in LookupNames :
        /\ FlagsContains(Combined, name) <=>
              \E i \in 1..Len(Combined) : Denotes(Combined[i], name)
        /\ FlagsContains(Combined, name) =>
              /\ FlagsGet(Combined, name).panic = None
              /\ \E i \in 1..Len(Combined) : Denotes(Combined[i], name)
              /\ FlagsGet(Combined, name).flag = Combined[FirstDenoted(Combined, name)]
        /\ ~FlagsContains(Combined, name) =>
              FlagsGet(Combined, name).panic =
                  "babycli: flag " \o Quote(name) \o " is not defined"

\* a handler was invoked and returned
HandlerReturned == pc = "done" /\ invoked # <<>> /\ got.panic = None

\* C21 (as claimed): once a leaf's handler was invoked, the code Run returns
\* is the code the handler returned, whichever code that is.
C21_RunReturnsHandlerCode ==
    HandlerReturned => code = call.ret

\* C21 (amended): the code Run returns is the code the handler returned,
\* except that for the Usability code Run returns Failure.
C21_RunReturnsHandlerCodeButUsability ==
    HandlerReturned =>
        code = IF call.ret = Usability THEN Failure ELSE call.ret

C21_Witness ==
    /\ HandlerReturned
    /\ cfg.shape = "nested"
    /\ cfg.Arguments = <<"other">>
    /\ invoked = <<4>>
    /\ call.ret = Usability
    /\ code = Failure

\* C22: a run that reaches a command without children and without handler
\* ends with the Failure result and invokes no handler, whatever is left on
\* the stack.
C22_LeafWithoutHandlerFails ==
    [][ (/\ FlagsDone
         /\ Leaf(Node) /\ ~Node.Function
         /\ \A i \in 1..Len(HelpValues) : ~HelpValues[i]) =>
            /\ pc' = "done" /\ code' = Failure
            /\ invoked' = invoked /\ invoked = <<>> ]_vars

\* C23: a second New and Run on the same command tree start with an empty
\* store: no value recorded by the first run is there for the accessors or
\* for the help check of the second, which is given no arguments and so
\* records nothing itself.
C23_SecondRunStartsEmpty ==
    (rerun /\ pc # "new") => vals = NewValues

SplitArgs ==
    { "-name", "-name=bob", "'a=b'", "-name='bob dylan'", "--name=bob",
      "-n=a=b", "a=b", "name", "-n=", "-=", "=", "--ttl=1m30s" }

\* the tokens left on the stack when maybeSplit is called
SplitItems == { <<"bob">>, <<"--age">>, <<"-n=carl">> }

\* maybeSplit without the test of the leading dash
maybeSplitAny(arg, a) ==
    IF IndexEq(arg) > 0
    THEN [name |-> SubSeq(arg, 1, IndexEq(arg) - 1),
          args |-> Append(a, SubSeq(arg, IndexEq(arg) + 1, Len(arg)))]
    ELSE [name |-> arg, args |-> a]

\* maybeSplit: a token with a leading dash is cut at its first "=", the part
\* after it is pushed on the stack and the part before it is returned; any
\* other token is returned as it is
maybeSplit(arg, a) ==
    IF HasPrefix(arg, "-") /\ IndexEq(arg) > 0
    THEN [name |-> SubSeq(arg, 1, IndexEq(arg) - 1),
          args |-> Append(a, SubSeq(arg, IndexEq(arg) + 1, Len(arg)))]
    ELSE [name |-> arg, args |-> a]

\* a command holding a stack, and a token popped from it
SplitInit ==
    /\ \E arg \in SplitArgs : popped = <<arg>>
    /\ \E line \in Lines(SplitItems, MaxItems) : args = NewStack(line)
    /\ cfg = FlatConfig(StringFlag, FALSE, FALSE, FALSE, <<>>)
    /\ vals = NewValues
    /\ cur = Top
    /\ version = cfg.Version
    /\ globals = cfg.Globals \o <<helpFlag>>
    /\ pc = "split"
    /\ output = <<>>
    /\ code = None
    /\ panicMsg = None
    /\ invoked = <<>>
    /\ call = NoCall
    /\ got = Value(None)
    /\ rerun = FALSE
    /\ later = Value(None)
    /\ flat = [n \in 1..Len(cfg.nodes) |-> <<>>]

\* name := c.maybeSplit(arg)
MaybeSplit ==
    /\ pc = "split"
    /\ got' = Value(maybeSplit(popped[1], args).name)
    /\ args' = maybeSplit(popped[1], args).args
    /\ pc' = "name"
    /\ UNCHANGED <<flat, later, rerun, cfg, vals, cur, version, globals, output,
                   code, panicMsg, invoked, call, popped>>

SplitNext == MaybeSplit

SplitSpec == SplitInit /\ [][SplitNext]_vars

\* C25: maybeSplit of a token that starts with "-" and contains "=" returns
\* the part before the first "=" and pushes the part after it, as it is
\* written, as the next token of the stack, which grows by one; of any other
\* token it returns the token and leaves the stack as it was.
C25_MaybeSplit ==
    [][ pc = "split" =>
          IF HasPrefix(popped[1], "-") /\ HasSub(popped[1], "=")
          THEN /\ got'.value \o "=" \o Peek(args') = popped[1]
               /\ ~HasSub(got'.value, "=")
               /\ Pop(args') = args
               /\ Len(args') = Len(args) + 1
          ELSE /\ got'.value = popped[1]
               /\ args' = args ]_vars

C25_Witness ==
    /\ pc = "name"
    /\ popped = <<"-name='bob dylan'">>
    /\ got = Value("-name")
    /\ args = <<"bob", "--age", "'bob dylan'">>

\* the next token of the stack is there and starts with "-"
FlagNext == ~Empty(args) /\ HasPrefix(Peek(args), "-")

\* C26: at a node the next step consumes a flag exactly when the stack is
\* not empty and its next token starts with "-": such a token is popped and
\* looked up as a flag of the node, with no dispatch. Otherwise no flag is
\* consumed: the stack is left as it is for the leaf's handler, for the help
\* and for the missing sub-command, or its next token alone is popped and
\* taken as the name of a sub-command. (A leaf's handler may then take the
\* tokens left itself, with Arguments.)
C26_FlagsWhileDash ==
    [][ pc = "flags" =>
          IF FlagNext
          THEN /\ Len(popped') > Len(popped)
               /\ popped'[Len(popped) + 1] = Peek(args)
               /\ Len(args') < Len(args)
               /\ cur' = cur /\ invoked' = invoked /\ output' = output
               /\ \/ pc' = "flags" /\ panicMsg' = None
                  \/ /\ pc' # "flags"
                     /\ \/ HasPrefix(panicMsg', "babycli: flag ")
                        \/ HasPrefix(panicMsg', "babycli: no value for ")
                        \/ HasPrefix(panicMsg', "babycli: unable to convert ")
          ELSE /\ vals' = vals
               /\ \/ args' = args /\ popped' = popped /\ pc' # "flags"
                  \/ Len(invoked') > Len(invoked) /\ AsksArguments' /\ pc' # "flags"
                  \/ /\ args' = Pop(args)
                     /\ popped' = Append(popped, Peek(args))
                     /\ \/ /\ pc' = "flags"
                           /\ \E i \in 1..Len(Node.Components) :
                                 cur' = Node.Components[i]
                        \/ /\ pc' # "flags"
                           /\ HasPrefix(panicMsg', "babycli: subcommand ") ]_vars

C26_Witness ==
    /\ pc = "flags"
    /\ cfg.shape = "nested"
    /\ cfg.Arguments = <<"--verbose", "first", "--age", "20", "second">>
    /\ cur = 2
    /\ popped = <<"--verbose", "first", "--age", "20">>
    /\ args = <<"second">>
    /\ ~FlagNext

\* the map of the store that holds the values of kind k
OfKind(v, k) ==
    CASE k = StringFlag -> v.strings [] k = IntFlag -> v.ints
      [] k = BooleanFlag -> v.bools [] k = DurationFlag -> v.durations

\* every sequence of m is there in m2, as it was or with values added at its end
Grows(m, m2) ==
    \A k \in DOMAIN m :
        /\ k \in DOMAIN m2
        /\ Len(m2[k]) >= Len(m[k])
        /\ SubSeq(m2[k], 1, Len(m[k])) = m[k]

\* m2 is m with exactly one value more, at the end of the sequence of key k
OneMore(m, m2, k) ==
    /\ Len(Lookup(m2, k)) = Len(Lookup(m, k)) + 1
    /\ SubSeq(Lookup(m2, k), 1, Len(Lookup(m, k))) = Lookup(m, k)
    /\ \A x \in ((DOMAIN m) \cup (DOMAIN m2)) \ {k} : Lookup(m2, x) = Lookup(m, x)

\* the flag the next token of the stack denotes at the current node
TokenFlag == FlagsGet(Node.Flags \o globals, TrimLeftDash(Peek(args))).flag

\* C27: no step of a run removes, reorders or overwrites a recorded value:
\* every sequence of the store only grows; a flag parsed with success adds
\* exactly one value, at the end of the sequence of its identity in the map of
\* its kind, and changes no other sequence.
C27_StoreOnlyAppends ==
    [][ pc # "new" =>
          /\ \A k \in FlagTypes : Grows(OfKind(vals, k), OfKind(vals', k))
          /\ (pc = "flags" /\ FlagNext /\ pc' = "flags") =>
                /\ OneMore(OfKind(vals, TokenFlag.Type),
                           OfKind(vals', TokenFlag.Type), Identity(TokenFlag))
                /\ \A k \in FlagTypes \ {TokenFlag.Type} :
                       OfKind(vals', k) = OfKind(vals, k) ]_vars

C27_Witness ==
    /\ pc = "flags"
    /\ cfg.shape = "flat"
    /\ cfg.Arguments = <<"-n", "bob", "--name", "carl">>
    /\ Empty(args)
    /\ vals.strings = MapAppend(MapAppend(<<>>, "name", "bob"), "name", "carl")
    /\ vals.ints = <<>> /\ vals.bools = <<>> /\ vals.durations = <<>>

\* the next token denotes an integer or duration flag of the node and the
\* token after it is there and does not start with "-"
NumberFlagWithValue ==
    /\ FlagNext
    /\ FlagsGet(Node.Flags \o globals, TrimLeftDash(Peek(args))).panic = None
    /\ TokenFlag.Type \in {IntFlag, DurationFlag}
    /\ Len(args) >= 2
    /\ ~HasPrefix(Peek(Pop(args)), "-")

\* the value the token s stands for as a flag of kind k
Parsed(k, s) == IF k = IntFlag THEN Atoi(s) ELSE ParseDuration(s)

\* C28: an integer or duration flag followed by a token that does not start
\* with "-" consumes that token; a token that parses is appended, as a number,
\* to the flag's sequence; a token that does not parse ends the run with a
\* conversion error and the Failure result, and nothing is recorded.
C28_NumberFlagValue ==
    [][ (pc = "flags" /\ NumberFlagWithValue) =>
          /\ args' = Pop(Pop(args))
          /\ IF Parsed(TokenFlag.Type, Peek(Pop(args))).ok
             THEN /\ pc' = "flags"
                  /\ OfKind(vals', TokenFlag.Type) =
                        MapAppend(OfKind(vals, TokenFlag.Type), Identity(TokenFlag),
                                  Parsed(TokenFlag.Type, Peek(Pop(args))).val)
             ELSE /\ vals' = vals
                  /\ HasPrefix(panicMsg', "babycli: unable to convert value for flag ")
                  /\ pc' = "done" /\ code' = Failure ]_vars

\* C29: GetDurations falls back (the default alone, else a failure for a
\* required flag, else no values) if and only if no duration was recorded
\* for the flag; with at least one duration recorded it returns the recorded
\* durations in order, whatever the flag's default and Require. (An ancestor's
\* flag without a recorded value is the matter of C36.)
C29_GetDurationsFallback ==
    (/\ Terminated /\ call.acc = "GetDurations"
     /\ Inherited => Len(Recorded(Asked)) >= 1) =>
        IF Len(Recorded(Asked)) >= 1
        THEN got.panic = None /\ got.value = Recorded(Asked)
        ELSE IF Asked.Default.set
        THEN got.panic = None /\ got.value = << Asked.Default.Value >>
        ELSE IF Asked.Require
        THEN got.panic = "babycli: no value for duration flag " \o Quote(call.flag)
        ELSE got.panic = None /\ got.value = <<>>

\* the flags declared on the commands from the root to the current one, and
\* the globals
VisitedFlags ==
    UNION { { cfg.nodes[n].Flags[i] : i \in 1..Len(cfg.nodes[n].Flags) } :
              n \in { x \in 1..Len(cfg.nodes) : Below(cfg.nodes, Top, x)
                                                 /\ Below(cfg.nodes, x, cur) } }
    \cup { globals[i] : i \in 1..Len(globals) }

\* every key of the store is the long name of a flag visited, or the short
\* name of one that has no long name, and the flag is of the kind of the map
KeysAreIdentities ==
    \A k \in FlagTypes : \A key \in DOMAIN OfKind(vals, k) :
        \E f \in VisitedFlags :
            /\ f.Type = k
            /\ key = (IF f.Long # "" THEN f.Long ELSE f.Short)

\* no key is the short name of a flag visited that has a long name
NoShortKeys ==
    \A f \in VisitedFlags :
        (f.Long # "" /\ f.Short # "") => f.Short \notin DOMAIN OfKind(vals, f.Type)

\* C30: in a run every key of the store is the identity (the long name, or
\* the short name when there is no long name) of a flag declared on a command
\* visited or in the globals; a flag given by its short name or by its long
\* name adds to the one sequence under its long name when it has one, and
\* nothing is recorded under its short name.
C30_KeysAreIdentities ==
    [][ (pc # "new" /\ ~rerun') =>
          /\ KeysAreIdentities'
          /\ NoShortKeys'
          /\ (pc = "flags" /\ FlagNext /\ pc' = "flags") =>
                \E f \in VisitedFlags :
                    /\ TrimLeftDash(Peek(args)) \in {f.Long, f.Short}
                    /\ OneMore(OfKind(vals, f.Type), OfKind(vals', f.Type),
                               IF f.Long # "" THEN f.Long ELSE f.Short) ]_vars

C30_Witness ==
    /\ pc = "flags"
    /\ cfg.shape = "flat"
    /\ cfg.Arguments = <<"-a", "20", "--age", "30">>
    /\ Empty(args)
    /\ DOMAIN vals.ints = {"age"}
    /\ vals.ints["age"] = <<20, 30>>

\* C31: when the handler of a leaf returns the Usability code the help text
\* of that leaf is written to the output and the run returns Failure; when it
\* returns another code nothing is written after it.
C31_UsabilityWritesHelp ==
    [][ (pc = "flags" /\ Len(invoked') > Len(invoked) /\ got'.panic = None) =>
          IF call'.ret = Usability
          THEN /\ Len(output') = Len(output) + 1
               /\ SubSeq(output', 1, Len(output)) = output
               /\ HasPrefix(output'[Len(output')], HelpHead(Node))
               /\ pc' = "done" /\ code' = Failure
          ELSE /\ output' = output
               /\ pc' = "done" ]_vars

C31_Witness ==
    /\ pc = "done"
    /\ cfg.shape = "flat"
    /\ cfg.Arguments = <<"--name", "bob">>
    /\ invoked = <<1>>
    /\ call.ret = Usability
    /\ Len(output) = 1 /\ HasPrefix(output[1], HelpHead(Node))
    /\ code = Failure

\* C32 (steps): a step of the walker at a node pops at least one token when
\* it consumes a flag and exactly one when it enters a child; a step that
\* leaves the walker running has shortened the stack.
StepsPop ==
    [][ pc = "flags" =>
          /\ FlagNext => Len(args') < Len(args)
          /\ cur' # cur => Len(args') = Len(args) - 1
          /\ pc' = "flags" => Len(args') < Len(args) ]_vars

\* C32: every run terminates, by returning a result or by a fatal abort, and
\* the steps of its walker are bounded by the number of tokens, each flag step
\* popping at least one token and each descent exactly one.
C32_RunTerminates ==
    /\ StepsPop
    /\ (pc = "new") ~> Terminated

C32_Witness ==
    /\ pc = "done"
    /\ cfg.shape = "nested"
    /\ cfg.Arguments = <<"--verbose", "first", "second">>
    /\ cur = 3
    /\ Empty(args)
    /\ popped = cfg.Arguments

\* help was recorded as true
HelpTrue == \E i \in 1..Len(HelpValues) : HelpValues[i]

\* C33: in a run at most one handler is invoked, at most once, and only by
\* the dispatch of a leaf whose flags are consumed and whose help is not set;
\* a step that consumes a flag, writes help for the help flag or for a branch
\* with an empty stack, or looks up a sub-command invokes none, so a run that
\* ends there, with help or with a fatal error, has invoked no handler.
C33_AtMostOneHandler ==
    [][ /\ Len(invoked') <= 1
        /\ Len(invoked') > Len(invoked) =>
              /\ pc = "flags" /\ ~FlagNext /\ ~HelpTrue
              /\ Leaf(Node) /\ invoked = <<>> /\ invoked' = <<cur>>
        /\ (pc = "flags" /\ (FlagNext \/ HelpTrue \/ ~Leaf(Node))) =>
              invoked' = <<>> ]_vars

C33_Witness ==
    /\ pc = "done"
    /\ cfg.shape = "chain"
    /\ cfg.Arguments = <<"run", "-q">>
    /\ invoked = <<2>>
    /\ code = Success
    /\ output = <<>>

\* C34: at a branch where help was recorded as true, an error of a further
\* flag of the node comes first; once the flags are consumed the node's help
\* is written and the run returns Success, also with an empty stack and with
\* a next token that names no child: neither the missing sub-command failure
\* nor the sub-command lookup is reached.
C34_HelpBeforeSubcommand ==
    [][ (pc = "flags" /\ HelpTrue /\ ~Leaf(Node)) =>
          IF FlagNext
          THEN /\ output' = output
               /\ cur' = cur
               /\ \/ pc' = "flags"
                  \/ panicMsg' # None /\ pc' = "panicked"
                  \/ panicMsg' # None /\ pc' = "done" /\ code' = Failure
          ELSE /\ HelpShortCircuit
               /\ ~HasPrefix(panicMsg', "babycli: subcommand ") ]_vars

C34_Witness ==
    /\ pc = "done"
    /\ cfg.shape = "nested"
    /\ cfg.Arguments = <<"-h", "nope">>
    /\ cur = Top
    /\ args = <<"nope">>
    /\ code = Success
    /\ Len(output) = 1 /\ HasPrefix(output[1], HelpHead(cfg.nodes[Top]))
    /\ panicMsg = None

\* C35: a leaf handler that calls Arguments gets every token left on the
\* stack when it was entered, in the order of the command line, and Nargs
\* gives their number; a second call gives the same.
C35_ArgumentsAreTheRest ==
    [][ (pc = "flags" /\ ~rerun /\ call'.acc \in {"Arguments", "Nargs"}) =>
          /\ got'.panic = None
          /\ IF call'.acc = "Nargs" THEN got'.value = Len(args)
             ELSE got'.value = Reverse(args)
          /\ later' = got' ]_vars

\* what the fallback of flag f gives to a singular and to a plural accessor
FallbackValue(f, plural) ==
    IF f.Default.set
    THEN Value(IF plural THEN << f.Default.Value >> ELSE f.Default.Value)
    ELSE IF f.Require
    THEN Raise("babycli: no value for " \o KindWord(f.Type) \o " flag "
               \o Quote(Identity(f)))
    ELSE IF plural THEN Value(<<>>) ELSE Value(Zero(f.Type))

\* C36: the accessor of a leaf's handler, asked for a flag that an ancestor
\* or the globals declare and that was not given on the command line, applies
\* the fallback of that flag (default, else failure if required, else zero
\* value or empty sequence) and does not abort with "flag ... is not defined".
C36_InheritedFlagFallback ==
    (/\ Terminated /\ (SingularCall \/ PluralCall)
     /\ Inherited /\ Len(Recorded(Asked)) = 0) =>
        /\ panicMsg # "babycli: flag " \o Quote(call.flag) \o " is not defined"
        /\ got = FallbackValue(Asked, PluralCall)

\* the next token of the stack is made of dashes only
DashesNext == FlagNext /\ TrimLeftDash(Peek(args)) = ""

\* C37: a token made only of dashes denotes no flag, also at a command that
\* declares a flag with a short name only: the flag step that pops it ends
\* the run with "flag "" is not defined" and records nothing.
C37_DashesDenoteNoFlag ==
    [][ (pc = "flags" /\ DashesNext) =>
          /\ panicMsg' = "babycli: flag " \o Quote("") \o " is not defined"
          /\ pc' # "flags"
          /\ vals' = vals ]_vars

(* ---------------------------------------------------------------------- *)
(* consumeFlag on tokens with any number of leading dashes                 *)
(* ---------------------------------------------------------------------- *)

\* number of leading dashes of a flag token
MaxDashes == 3

\* d dashes
RECURSIVE Dashes(_)
Dashes(d) == IF d = 0 THEN "" ELSE "-" \o Dashes(d - 1)

\* the names given after the dashes: the flag's long name, its short name,
\* and a name no flag has
DashNames(k) == { LongOf(k), ShortOf(k), "nope" }

\* what follows the flag token on the command line
DashItems(k) ==
    { <<ValueTokens(k)[1]>>, <<ValueTokens(k)[2]>>, <<OddToken(k)>>, <<"-5">>,
      <<"--" \o LongOf(k)>> }

\* a leaf command in its flag loop, its first token a name after d dashes
DashInit ==
    /\ \E k \in FlagTypes, d \in 1..MaxDashes :
         \E nm \in DashNames(k), line \in Lines(DashItems(k), MaxItems) :
             cfg = FlatConfig(k, FALSE, TRUE, FALSE, <<Dashes(d) \o nm>> \o line)
    /\ args = NewStack(cfg.Arguments)
    /\ vals = NewValues
    /\ cur = Top
    /\ version = cfg.Version
    /\ globals = cfg.Globals \o <<helpFlag>>
    /\ pc = "flags"
    /\ output = <<>>
    /\ code = None
    /\ panicMsg = None
    /\ invoked = <<>>
    /\ call = NoCall
    /\ got = Value(None)
    /\ popped = <<>>
    /\ rerun = FALSE
    /\ later = Value(None)
    /\ flat = [n \in 1..Len(cfg.nodes) |-> <<>>]

DashNext == ConsumingFlags

DashSpec == DashInit /\ [][DashNext]_vars

\* the token made of the name nm after the usual dashes: one for a name of
\* one character, two for a longer one
Usual(nm) == (IF Len(nm) = 1 THEN "-" ELSE "--") \o nm

\* C38: the number of leading dashes of a flag token does not matter: the
\* token of d dashes and a flag's long or short name is the step of that
\* flag, never "is not defined", and it leaves the stack, the store and the
\* error that the token with the usual dashes leaves.
C38_DashCountIrrelevant ==
    [][ \A d \in 1..MaxDashes : \A i \in 1..Len(Combined) :
          \A nm \in {Combined[i].Long, Combined[i].Short} \ {""} :
            (pc = "flags" /\ ~Empty(args) /\ Peek(args) = Dashes(d) \o nm) =>
               /\ panicMsg' # "babycli: flag " \o Quote(nm) \o " is not defined"
               /\ pc' = "flags" =>
                     OneMore(OfKind(vals, Combined[i].Type),
                             OfKind(vals', Combined[i].Type),
                             IF Combined[i].Long # "" THEN Combined[i].Long
                             ELSE Combined[i].Short)
               /\ args' = consumeFlag(Node, globals,
                                      Append(Pop(args), Usual(nm)), vals).args
               /\ vals' = consumeFlag(Node, globals,
                                      Append(Pop(args), Usual(nm)), vals).vals
               /\ panicMsg' = consumeFlag(Node, globals,
                                          Append(Pop(args), Usual(nm)), vals).panic
      ]_vars

C38_Witness ==
    /\ pc = "flags"
    /\ cfg.Arguments = <<"---name", "bob", "carl">>
    /\ popped = <<"---name", "bob">>
    /\ args = <<"carl">>
    /\ vals.strings = MapAppend(<<>>, "name", "bob")

====
